---- MODULE Spec2Model ----
(***************************************************************************)
(* Model of langchain/chains/conversation/base.py: the construction of a   *)
(* ConversationChain (pydantic field assignment, the root validator        *)
(* validate_prompt_input_variables, then the body of __init__) and the     *)
(* input_keys property of a constructed chain.                             *)
(***************************************************************************)
EXTENDS Naturals, Sequences, FiniteSets

\* ---------------------------------------------------------------- bounds
MaxMemLen == 2      \* longest memory_variables list tried
MaxPromptLen == 3   \* longest prompt input_variables list tried
MaxCalls == 2       \* number of input_keys reads followed on a valid chain

\* ------------------------------------------------------------- vocabulary
Names == {"input", "history", "extra"}
OutputNames == {"response", "answer"}

Unset == "<None>"        \* Python None held by memory.input_key
Omitted == "<omitted>"   \* keyword argument not passed by the caller
NoError == "<no error>"
NoValue == "<no value>"  \* attribute of an object that does not exist

ConfigurationErrors ==
    {"MissingMemoryInputKey", "InputKeyCollision", "PromptMemoryMismatch"}

SeqsUpTo(S, n) == UNION {[1..m -> S] : m \in 0..n}

\* x in lst
Contains(lst, x) == \E i \in 1..Len(lst) : lst[i] = x

\* set(lst)
ToSet(lst) == {lst[i] : i \in 1..Len(lst)}

\* ------------------------------------------------------------ collaborators
\* A memory argument: kind "store" is a BaseMemory object, kind "none" is
\* memory=None, kind "omitted" is the keyword left out.
MemoryStore(vars, key) ==
    [kind |-> "store", memory_variables |-> vars, input_key |-> key]

NoMemory == [kind |-> "none", memory_variables |-> <<>>, input_key |-> Unset]

OmittedMemory ==
    [kind |-> "omitted", memory_variables |-> <<>>, input_key |-> Unset]

\* ConversationBufferMemory(): history under "history", input_key not set.
DefaultMemory == MemoryStore(<<"history">>, Unset)

\* langchain.chains.conversation.prompt.PROMPT
DefaultPrompt == <<"history", "input">>

PromptArg(given, vars) == [given |-> given, input_variables |-> vars]

MemoryArgs ==
    {MemoryStore(v, k) : v \in SeqsUpTo(Names, MaxMemLen),
                         k \in Names \cup {Unset}}
    \cup {NoMemory, OmittedMemory}

PromptArgs ==
    {PromptArg(TRUE, v) : v \in SeqsUpTo(Names, MaxPromptLen)}
    \cup {PromptArg(FALSE, <<>>)}

KwargsSet ==
    [memory : MemoryArgs, prompt : PromptArgs,
     input_key : Names \cup {Omitted}, output_key : OutputNames \cup {Omitted}]

\* ------------------------------------------------------------ field values
\* The class-level defaults applied to the keyword arguments.
FieldValues(kw) ==
    [memory |-> IF kw.memory.kind = "omitted" THEN DefaultMemory ELSE kw.memory,
     prompt |-> IF kw.prompt.given THEN kw.prompt.input_variables
                ELSE DefaultPrompt,
     input_key |-> IF kw.input_key = Omitted THEN "input" ELSE kw.input_key,
     output_key |-> IF kw.output_key = Omitted THEN "response"
                    ELSE kw.output_key]

\* ------------------------------------------------------------ root validator
\* Variant: the subset test made before the collision test.
validate_swapped(values) ==
    LET memory_keys == values.memory.memory_variables
        expected_keys == Append(memory_keys, values.input_key)
    IN  IF values.memory.kind = "none" THEN "MemoryAccessError"
        ELSE IF ~(ToSet(expected_keys) \subseteq ToSet(values.prompt))
             THEN "PromptMemoryMismatch"
        ELSE IF Contains(memory_keys, values.input_key)
             THEN "InputKeyCollision"
        ELSE NoError

\* Variant: only input_key, not the memory keys, looked up in the prompt.
validate_input_key_only(values) ==
    LET memory_keys == values.memory.memory_variables
    IN  IF values.memory.kind = "none" THEN "MemoryAccessError"
        ELSE IF Contains(memory_keys, values.input_key)
             THEN "InputKeyCollision"
        ELSE IF ~Contains(values.prompt, values.input_key)
             THEN "PromptMemoryMismatch"
        ELSE NoError

\* Variant: expected keys compared with the prompt by equality.
validate_set_equality(values) ==
    LET memory_keys == values.memory.memory_variables
        expected_keys == Append(memory_keys, values.input_key)
    IN  IF values.memory.kind = "none" THEN "MemoryAccessError"
        ELSE IF Contains(memory_keys, values.input_key)
             THEN "InputKeyCollision"
        ELSE IF ToSet(expected_keys) # ToSet(values.prompt)
             THEN "PromptMemoryMismatch"
        ELSE NoError

\* Variant: the inclusion tested the other way round.
validate_superset(values) ==
    LET memory_keys == values.memory.memory_variables
        expected_keys == Append(memory_keys, values.input_key)
    IN  IF values.memory.kind = "none" THEN "MemoryAccessError"
        ELSE IF Contains(memory_keys, values.input_key)
             THEN "InputKeyCollision"
        ELSE IF ~(ToSet(values.prompt) \subseteq ToSet(expected_keys))
             THEN "PromptMemoryMismatch"
        ELSE NoError

\* The error the validator raises on the assembled field values, or NoError.
\* Reading memory_variables off memory=None raises before any check.
validate_prompt_input_variables(values) ==
    LET memory_keys == values.memory.memory_variables
        expected_keys == Append(memory_keys, values.input_key)
    IN  IF values.memory.kind = "none" THEN "MemoryAccessError"
        ELSE IF Contains(memory_keys, values.input_key)
             THEN "InputKeyCollision"
        ELSE IF ~(ToSet(expected_keys) \subseteq ToSet(values.prompt))
             THEN "PromptMemoryMismatch"
        ELSE NoError

\* ------------------------------------------------------------ __init__ body
\* Variant: no test of memory.input_key.
memory_input_key_check_skipped(values) == NoError

\* The check made by __init__ after super().__init__ has returned.
memory_input_key_check(values) ==
    IF values.memory.kind # "none" /\ values.memory.input_key = Unset
    THEN "MissingMemoryInputKey"
    ELSE NoError

\* Variant: memory.input_key tested before the validator runs.
ConstructionError_key_check_first(kw) ==
    LET values == FieldValues(kw)
        missing == memory_input_key_check(values)
    IN  IF missing # NoError THEN missing
        ELSE validate_prompt_input_variables(values)

\* ConversationChain(**kwargs): super().__init__ runs the root validator
\* first; only when it returns does the body's own check run.
ConstructionError(kw) ==
    LET values == FieldValues(kw)
        raised == validate_prompt_input_variables(values)
    IN  IF raised # NoError THEN raised
        ELSE memory_input_key_check(values)

\* ------------------------------------------------------------ input_keys
\* Variant: the memory keys returned along with input_key.
input_keys_expected(chain_memory, chain_input_key) ==
    Append(chain_memory.memory_variables, chain_input_key)

input_keys(chain_memory, chain_input_key) == <<chain_input_key>>

\* ------------------------------------------------------------------ state
VARIABLES
    phase,       \* "under_construction", "valid" or "failed"
    kwargs,      \* the keyword arguments of the construction attempt
    error,       \* the exception the constructor raised, or NoError
    memory,      \* self.memory
    prompt,      \* self.prompt.input_variables
    input_key,   \* self.input_key
    output_key,  \* self.output_key
    keys,        \* what the latest read of input_keys returned
    calls        \* number of reads of input_keys so far

vars == <<phase, kwargs, error, memory, prompt, input_key, output_key,
          keys, calls>>

config == <<memory, prompt, input_key, output_key>>

NoKwargs ==
    [memory |-> OmittedMemory, prompt |-> PromptArg(FALSE, <<>>),
     input_key |-> Omitted, output_key |-> Omitted]

Init ==
    /\ phase = "under_construction"
    /\ kwargs = NoKwargs
    /\ error = NoError
    /\ memory = NoMemory
    /\ prompt = <<>>
    /\ input_key = NoValue
    /\ output_key = NoValue
    /\ keys = <<>>
    /\ calls = 0

\* ConversationChain(**kw), for any keyword arguments kw
Construct ==
    /\ phase = "under_construction"
    /\ \E kw \in KwargsSet :
        /\ kwargs' = kw
        /\ error' = ConstructionError(kw)
        /\ IF ConstructionError(kw) = NoError
           THEN /\ phase' = "valid"
                /\ memory' = FieldValues(kw).memory
                /\ prompt' = FieldValues(kw).prompt
                /\ input_key' = FieldValues(kw).input_key
                /\ output_key' = FieldValues(kw).output_key
           ELSE /\ phase' = "failed"
                /\ UNCHANGED config
    /\ UNCHANGED <<keys, calls>>

\* chain.input_keys
ReadInputKeys ==
    /\ phase = "valid"
    /\ calls < MaxCalls
    /\ keys' = input_keys(memory, input_key)
    /\ calls' = calls + 1
    /\ UNCHANGED <<phase, kwargs, error, config>>

Next ==
    \/ Construct
    \/ ReadInputKeys

Spec == Init /\ [][Next]_vars

\* ------------------------------------------------------- shared vocabulary
Attempted == phase # "under_construction"
Given == FieldValues(kwargs)
M == Given.memory.memory_variables
k == Given.input_key
P == Given.prompt
Attached == Given.memory.kind = "store"
KeySet == Given.memory.input_key # Unset
Expected == ToSet(M) \cup {k}


\* ------------------------------------------------------------------ claims

\* C1 as stated: whenever a memory store is attached and its input key is
\* unset, construction fails with MissingMemoryInputKey, whatever M and P are.
C1_MissingKeyCheckFirst ==
    (Attempted /\ Attached /\ ~KeySet)
        => (phase = "failed" /\ error = "MissingMemoryInputKey")

\* C1 amended: with an attached store whose input key is unset construction
\* always fails, with the validator's error when the validator has one
\* (InputKeyCollision if k is in M, else PromptMemoryMismatch if M \cup {k}
\* is not a subset of P) and with MissingMemoryInputKey only otherwise.
C1_UnsetKeyFailsAfterValidator ==
    (Attempted /\ Attached /\ ~KeySet)
        => /\ phase = "failed"
           /\ error = IF Contains(M, k) THEN "InputKeyCollision"
                      ELSE IF ~(Expected \subseteq ToSet(P))
                           THEN "PromptMemoryMismatch"
                      ELSE "MissingMemoryInputKey"

C1_Witness ==
    /\ Attempted /\ Attached /\ ~KeySet
    /\ kwargs.memory.kind = "store"
    /\ Contains(M, k)
    /\ error = "InputKeyCollision"

\* C2: with the memory input key set, k in M makes construction fail with
\* InputKeyCollision, also when M \cup {k} is not a subset of P.
C2_CollisionBeforeSubset ==
    (Attempted /\ Attached /\ KeySet /\ Contains(M, k))
        => (phase = "failed" /\ error = "InputKeyCollision")

C2_Witness ==
    /\ Attempted /\ Attached /\ KeySet
    /\ Contains(M, k)
    /\ ~(Expected \subseteq ToSet(P))
    /\ phase = "failed"
    /\ error = "InputKeyCollision"

\* C3 as stated: whenever M \cup {k} is not a subset of P, construction
\* fails with PromptMemoryMismatch.
C3_MismatchWheneverNotSubset ==
    (Attempted /\ Attached /\ ~(Expected \subseteq ToSet(P)))
        => (phase = "failed" /\ error = "PromptMemoryMismatch")

\* C3 amended: for a store with variables M, if k is not in M and
\* M \cup {k} is not a subset of P, construction fails with
\* PromptMemoryMismatch.
C3_MismatchWhenNoCollision ==
    (Attempted /\ Attached /\ ~Contains(M, k)
        /\ ~(Expected \subseteq ToSet(P)))
        => (phase = "failed" /\ error = "PromptMemoryMismatch")

C3_Witness ==
    /\ Attempted /\ Attached
    /\ ~Contains(M, k)
    /\ Contains(P, k)
    /\ ~(ToSet(M) \subseteq ToSet(P))
    /\ error = "PromptMemoryMismatch"

\* C4: on a valid chain every read of input_keys returns exactly the
\* one-element list [input_key], which holds no memory variable, and a later
\* read returns what the earlier one did.
C4_InputKeysIsInputKey ==
    /\ []((phase = "valid" /\ calls > 0)
            => /\ keys = <<k>>
               /\ \A i \in 1..Len(keys) : ~Contains(M, keys[i]))
    /\ [][(calls > 0 /\ calls' > calls) => keys' = keys]_vars

C4_Witness ==
    /\ phase = "valid"
    /\ calls >= 2
    /\ Len(M) >= 1
    /\ Cardinality(ToSet(P)) > Cardinality(Expected)
    /\ keys = <<k>>

\* C5: with the memory input key set, k not in M and M \cup {k} a subset of
\* P, construction succeeds, also when P has further variables.
C5_SubsetSucceeds ==
    (Attempted /\ Attached /\ KeySet /\ ~Contains(M, k)
        /\ Expected \subseteq ToSet(P))
        => (phase = "valid" /\ error = NoError)

C5_Witness ==
    /\ Attempted /\ Attached /\ KeySet
    /\ ~Contains(M, k)
    /\ Expected \subseteq ToSet(P)
    /\ Expected # ToSet(P)
    /\ phase = "valid"

\* C6 as stated: on a valid chain every prompt variable is a memory variable
\* or the input key.
C6_PromptWithinSupplied ==
    phase = "valid"
        => ToSet(prompt) \subseteq (ToSet(memory.memory_variables)
                                        \cup {input_key})

\* C6 amended: on a valid chain every memory variable and the input key is a
\* prompt variable; the prompt may declare further variables.
C6_SuppliedWithinPrompt ==
    phase = "valid"
        => (ToSet(memory.memory_variables) \cup {input_key})
               \subseteq ToSet(prompt)

C6_Witness ==
    /\ phase = "valid"
    /\ memory.memory_variables # <<>>
    /\ \E v \in ToSet(prompt) :
           v # input_key /\ ~Contains(memory.memory_variables, v)

\* C7: construction with the memory store (and everything else) left to its
\* default yields a valid chain with input_key "input" and output_key
\* "response".
C7_DefaultsConstruct ==
    (Attempted /\ kwargs = NoKwargs)
        => /\ phase = "valid"
           /\ error = NoError
           /\ input_key = "input"
           /\ output_key = "response"

C9_AllOrNothing ==
    /\ [](Attempted
            => \/ phase = "valid" /\ error = NoError
               \/ /\ phase = "failed"
                  /\ error \in ConfigurationErrors
                  /\ config = <<NoMemory, <<>>, NoValue, NoValue>>)
    /\ [][phase = "valid" => (phase' = "valid" /\ error' = NoError)]_vars

\* C10: with no memory store, construction succeeds exactly when input_key
\* is a prompt variable and otherwise fails with PromptMemoryMismatch.
C10_NoMemoryMeansEmpty ==
    (Attempted /\ Given.memory.kind = "none")
        => IF Contains(P, k)
           THEN phase = "valid" /\ error = NoError
           ELSE phase = "failed" /\ error = "PromptMemoryMismatch"

====
